---- MODULE Spec2Model ----
(***************************************************************************)
(* SecretMessenger: the websocket connection registry (ConnectionManager), *)
(* the per-connection session of websocket_endpoint, the HTTP routes that  *)
(* send messages and create chats, the participant rows they read, and the *)
(* calls of MessageService and ChatService over the store, as a state      *)
(* machine. One action is one run of a coroutine between two suspension    *)
(* points, or one call of a service, which is one transaction.             *)
(***************************************************************************)
EXTENDS Integers, Sequences, FiniteSets, TLC

\* ------------------------------------------------------------- bounds
MaxUsers == 3
\* websockets; the first MaxOpen of them connect where every event type is sent
MaxConns == 3
MaxOpen == 2
MaxChats == 1
MaxEvents == 2
MaxChanges == 1
\* the message service: rows of messages, contents, emojis, edits and calls
MaxMsgs == 2
MaxContents == 2
MaxEmojis == 2
MaxVersion == 3
MaxCalls == 4
MaxConversations == 2
MaxCreated == 2
MaxEdits == 2
\* service calls and requests that are in progress at the same time
MaxTxns == 2

Users == 1..MaxUsers
Conns == 1..MaxConns
Chats == 1..MaxChats
Conversations == 1..MaxConversations

\* websocket.close(code=4001, ...)
AuthCloseCode == 4001

\* Python None (exclude_user_id=None, payload.get("sub") is None)
None == 0
\* a "sub" that names no row of users
UnknownUser == MaxUsers + 1
\* the task of one HTTP send_message request
HttpTask == 0
Tasks == Conns \cup {HttpTask}
\* the {"type": "error", ...} frame in a connection's received frames (events count from 1)
ErrorEvent == 0

\* the types of inbound events the receive loop has a branch for, and one it has none for
EventTypes == {"message", "typing", "read"}
OtherType == "ping"

VARIABLES
    active_connections, \* ConnectionManager.active_connections: user id -> list of websockets
    chat_participants,  \* the participant rows of each chat, in insertion order
    messages,           \* the rows of messages; the id of a row is its index
    events,             \* the payloads handed to send_to_chat; an event is named by its index
    pc,                 \* where each task is suspended
    token,              \* websocket_endpoint's token of each session
    user_id,            \* websocket_endpoint's user_id of each session
    alive,              \* whether the transport of a websocket is open
    close_code,         \* the code a session closed its websocket with
    bc,                 \* the frame of the send_to_chat call a task is in
    inbox,              \* history: the frames an open websocket has been sent, in order
    g,                  \* history of each task's last send_to_chat call
    nDisc,              \* history: manager.disconnect calls made for each websocket
    wasReg,             \* history: whether manager.connect appended the websocket
    crashed,            \* history: the endpoint ended with an exception it did not handle
    doneAtReg,          \* history: the events whose broadcast had ended when the websocket registered
    handled,            \* inbound events and requests handled so far (bounded by MaxEvents)
    ignored,            \* history: the websocket and the number of the last inbound event of no known type
    changes,            \* participant rows added and removed so far (bounded by MaxChanges)
    service_messages,   \* MessageService: the rows of messages; the id of a row is its index
    message_versions,   \* the rows of message_versions
    message_status,     \* the rows of message_status
    message_reactions,  \* the rows of message_reactions
    calls,              \* service and chat route calls made so far (bounded by MaxCalls)
    last,               \* history: the last service or chat route call and what it returned
    contents,           \* history: the contents each message has had, the first at its creation
    txn                 \* what each call in progress has read from the store and not yet written

vars == <<active_connections, chat_participants, messages, events, pc, token, user_id, alive,
          close_code, bc, inbox, g, nDisc, wasReg, crashed, doneAtReg, handled, ignored,
          changes, service_messages, message_versions, message_status, message_reactions,
          calls, last, contents, txn>>

\* the rows of the store, and what a session keeps of its handshake
storeVars == <<chat_participants, changes>>
\* the tables of MessageService and the history of its calls
svcVars == <<service_messages, message_versions, message_status, message_reactions, calls, last,
            contents, txn>>
\* everything of the connection manager, the sessions and the routes of main.py
mainVars == <<active_connections, chat_participants, messages, events, pc, token, user_id,
              alive, close_code, bc, inbox, g, nDisc, wasReg, crashed, doneAtReg, handled,
              ignored, changes>>
\* the count of inbound events and its history
inVars == <<handled, ignored>>
authVars == <<token, user_id, close_code, wasReg, doneAtReg>>
\* what only the exception handlers of a session change
exitVars == <<active_connections, alive, nDisc, crashed>>

\* ------------------------------------------------------------- helpers
Range(s) == {s[i] : i \in 1..Len(s)}

\* list.remove(x): removes the first occurrence
ListRemove(s, x) ==
    LET i == CHOOSE k \in 1..Len(s) : s[k] = x /\ \A j \in 1..(k - 1) : s[j] # x
    IN  SubSeq(s, 1, i - 1) \o SubSeq(s, i + 1, Len(s))

NoBc == [ev |-> 0, snap |-> <<>>, pi |-> 0, it |-> 0, cur |-> 0, excl |-> None, det |-> FALSE]
NoG == [quiet |-> TRUE, stable |-> {}, tried |-> {}, failed |-> {}]

\* ------------------------------------------------------------- ConnectionManager

\* ConnectionManager.connect, after websocket.accept() returned
connect(reg, websocket, u) ==
    IF u \in DOMAIN reg
    THEN [reg EXCEPT ![u] = Append(@, websocket)]
    ELSE reg @@ (u :> <<websocket>>)

\* list.remove raises ValueError when the websocket is not in the user's list
disconnect_raises(reg, websocket, u) ==
    u \in DOMAIN reg /\ websocket \notin Range(reg[u])

\* mutant of disconnect: the key of a list left empty is kept
disconnect_keeps_key(reg, websocket, u) ==
    IF u \notin DOMAIN reg \/ disconnect_raises(reg, websocket, u)
    THEN reg
    ELSE [reg EXCEPT ![u] = ListRemove(@, websocket)]

\* ConnectionManager.disconnect: the registry it leaves
disconnect(reg, websocket, u) ==
    IF u \notin DOMAIN reg \/ disconnect_raises(reg, websocket, u)
    THEN reg
    ELSE LET rest == ListRemove(reg[u], websocket)
         IN  IF rest = <<>>
             THEN [x \in DOMAIN reg \ {u} |-> reg[x]]
             ELSE [reg EXCEPT ![u] = rest]

\* mutant of has_connections: the guard is dropped, the lookup is made for every user
has_connections_unguarded(reg, u) == TRUE

\* send_to_user: if user_id in self.active_connections
has_connections(reg, u) == u \in DOMAIN reg

\* send_to_chat: if participant.user_id != exclude_user_id
not_excluded(u, exclude_user_id) == u # exclude_user_id

\* send_to_user: except: pass
swallow_send_error == TRUE

\* db.query(ChatParticipant).filter(ChatParticipant.chat_id == chat_id).all()
participants_of(rows, chat_id) ==
    IF chat_id \in DOMAIN rows THEN rows[chat_id] ELSE <<>>

\* mutant of is_participant: the check passes for every user
is_participant_unchecked(rows, chat_id, u) == TRUE

\* db.query(ChatParticipant).filter(chat_id == ..., user_id == ...).first()
is_participant(rows, chat_id, u) == u \in Range(participants_of(rows, chat_id))

\* The list a suspended "for connection in self.active_connections[user_id]" still
\* iterates: the user's list, or the emptied list that disconnect deleted from the dict.
IterList(reg, u, det) == IF det \/ u \notin DOMAIN reg THEN <<>> ELSE reg[u]

\* send_to_chat's loop from participant p on, up to the first send_json it awaits:
\* where it suspends, whether it returned, whether the lookup raised KeyError.
RECURSIVE next_user(_, _, _, _)
next_user(reg, snap, p, excl) ==
    IF p > Len(snap) THEN [done |-> TRUE, raised |-> FALSE, pi |-> p, it |-> 0, cur |-> 0]
    ELSE IF not_excluded(snap[p], excl) /\ has_connections(reg, snap[p])
         THEN IF snap[p] \notin DOMAIN reg
              THEN [done |-> TRUE, raised |-> TRUE, pi |-> p, it |-> 0, cur |-> 0]
              ELSE IF Len(reg[snap[p]]) >= 1
                   THEN [done |-> FALSE, raised |-> FALSE, pi |-> p, it |-> 1,
                         cur |-> reg[snap[p]][1]]
                   ELSE next_user(reg, snap, p + 1, excl)
         ELSE next_user(reg, snap, p + 1, excl)

\* The loops resumed after the send_json at (pi, it) returned or raised: the list
\* iterator reads index it (0-based) of the list as it is now.
resume(reg, b) ==
    LET L == IterList(reg, b.snap[b.pi], b.det)
    IN  IF b.it < Len(L)
        THEN [done |-> FALSE, raised |-> FALSE, pi |-> b.pi, it |-> b.it + 1, cur |-> L[b.it + 1]]
        ELSE next_user(reg, b.snap, b.pi + 1, b.excl)

\* ------------------------------------------------------------- websocket_endpoint

\* what jwt.decode makes of a token: it raises PyJWTError, or yields a payload whose
\* "sub" is absent, names a user, or names no user
NoToken == [valid |-> FALSE, sub |-> None]
Tokens == {NoToken} \cup [valid : {TRUE}, sub : {None, UnknownUser} \cup Users]

\* mutant of authenticate: the users lookup is skipped
authenticate_no_lookup(tok) == IF ~tok.valid THEN None ELSE tok.sub

\* jwt.decode, payload.get("sub") and the users lookup: the user the session is
\* registered as, or None when the session is closed with AuthCloseCode
authenticate(tok) ==
    IF ~tok.valid THEN None
    ELSE IF tok.sub = None THEN None
    ELSE IF tok.sub \notin Users THEN None
    ELSE tok.sub

Registered == UNION {Range(active_connections[u]) : u \in DOMAIN active_connections}

\* the events whose send_to_chat calls are past the send_to_user call for user u:
\* the call has returned, or its loop over the participants has gone beyond u
Broadcast(u) ==
    {e \in 1..Len(events) :
        \A t \in Tasks :
            (pc[t] = "send" /\ bc[t].ev = e)
                => \A i \in bc[t].pi..Len(bc[t].snap) : bc[t].snap[i] # u}

\* A suspended list iterator keeps the list object: when disconnect deletes the user's
\* key the iterator is left on the emptied list, whatever list the key gets later.
BcAfter(newreg, u) ==
    [t \in Tasks |->
        IF /\ pc[t] = "send"
           /\ bc[t].snap[bc[t].pi] = u
           /\ u \in DOMAIN active_connections
           /\ u \notin DOMAIN newreg
        THEN [bc[t] EXCEPT !.det = TRUE]
        ELSE bc[t]]

\* history: a registry change seen by the send_to_chat calls that are suspended
GAfter(newreg, w) ==
    [t \in Tasks |->
        IF pc[t] = "send" /\ newreg # active_connections
        THEN [g[t] EXCEPT !.quiet = FALSE, !.stable = @ \ {w}]
        ELSE g[t]]

\* The exception handlers of websocket_endpoint. inner: the exception is a
\* WebSocketDisconnect raised in the receive loop (except WebSocketDisconnect), whose
\* disconnect call, if it raises, is followed by the one of except Exception.
Handlers(w, u, inner) ==
    LET raises == disconnect_raises(active_connections, w, u)
        newreg == disconnect(active_connections, w, u)
    IN  /\ active_connections' = newreg
        /\ nDisc' = [nDisc EXCEPT ![w] = @ + (IF inner /\ raises THEN 2 ELSE 1)]
        /\ crashed' = [crashed EXCEPT ![w] = raises]
        /\ pc' = [pc EXCEPT ![w] = "closed"]
        /\ alive' = [alive EXCEPT ![w] = FALSE]
        /\ bc' = [t \in Tasks |-> IF t = w THEN NoBc ELSE BcAfter(newreg, u)[t]]
        /\ g' = [t \in Tasks |-> IF t = w THEN NoG ELSE GAfter(newreg, w)[t]]
        /\ inbox' = [inbox EXCEPT ![w] = << >>]

\* websocket_endpoint up to the receive loop: the token check, the users lookup and
\* manager.connect. accepted: whether websocket.accept() returned (the client is
\* still there) or raised.
Open(w) ==
    /\ pc[w] = "idle"
    /\ \A v \in Conns : v < w => pc[v] # "idle"
    /\ \E tok \in Tokens, accepted \in BOOLEAN :
        LET u == authenticate(tok)
            sub == IF tok.valid THEN tok.sub ELSE None
        IN  /\ token' = [token EXCEPT ![w] = tok]
            /\ user_id' = [user_id EXCEPT ![w] = sub]
            /\ IF u = None
               THEN /\ accepted
                    /\ pc' = [pc EXCEPT ![w] = "closed"]
                    /\ close_code' = [close_code EXCEPT ![w] = AuthCloseCode]
                    /\ UNCHANGED <<exitVars, bc, g, inbox, wasReg, doneAtReg>>
               ELSE IF ~accepted
               THEN /\ Handlers(w, sub, FALSE)
                    /\ UNCHANGED <<close_code, wasReg, doneAtReg>>
               ELSE LET newreg == connect(active_connections, w, sub)
                    IN  /\ active_connections' = newreg
                        /\ pc' = [pc EXCEPT ![w] = "active"]
                        /\ alive' = [alive EXCEPT ![w] = TRUE]
                        /\ wasReg' = [wasReg EXCEPT ![w] = TRUE]
                        /\ doneAtReg' = [doneAtReg EXCEPT ![w] = Broadcast(sub)]
                        /\ g' = GAfter(newreg, w)
                        /\ UNCHANGED <<close_code, bc, inbox, nDisc, crashed>>
    /\ UNCHANGED <<svcVars, storeVars, messages, events, inVars>>

\* the client goes away: the transport of an open websocket closes
TransportClose(w) ==
    /\ pc[w] \in {"active", "reply", "send", "done"}
    /\ alive[w]
    /\ alive' = [alive EXCEPT ![w] = FALSE]
    /\ UNCHANGED <<svcVars, storeVars, authVars, active_connections, messages, events, pc, bc,
                   inbox, g, nDisc, crashed, inVars>>

\* mutant of RecvDisconnect: the handler ends the session without manager.disconnect
RecvDisconnect_no_unregister(w) ==
    /\ pc[w] = "active"
    /\ ~alive[w]
    /\ pc' = [pc EXCEPT ![w] = "closed"]
    /\ UNCHANGED <<svcVars, storeVars, authVars, exitVars, messages, events, bc, inbox, g,
                   inVars>>

\* receive_json raises WebSocketDisconnect: except WebSocketDisconnect
RecvDisconnect(w) ==
    /\ pc[w] = "active"
    /\ ~alive[w]
    /\ Handlers(w, user_id[w], TRUE)
    /\ UNCHANGED <<svcVars, storeVars, authVars, messages, events, inVars>>

\* receive_json raises on a frame that is not JSON, or data.get on JSON that is no
\* object: except Exception
RecvGarbage(w) ==
    /\ pc[w] = "active"
    /\ alive[w]
    /\ handled < MaxEvents
    /\ handled' = handled + 1
    /\ Handlers(w, user_id[w], FALSE)
    /\ UNCHANGED ignored
    /\ UNCHANGED <<svcVars, storeVars, authVars, messages, events>>

\* ------------------------------------------------------------- send_to_chat

\* A task leaves a run of send_to_chat's loops: at the next send_json it awaits, at
\* the return ("done"), or (a session) in except Exception when the loops raised.
Continue(t, n, b, h, box) ==
    IF n.raised /\ t # HttpTask
    THEN Handlers(t, user_id[t], FALSE)
    ELSE /\ pc' = [pc EXCEPT ![t] = IF n.raised THEN "idle"
                                    ELSE IF n.done THEN "done" ELSE "send"]
         /\ bc' = [bc EXCEPT ![t] = IF n.raised THEN NoBc ELSE b]
         /\ g' = [g EXCEPT ![t] = IF n.raised THEN NoG ELSE h]
         /\ inbox' = box
         /\ UNCHANGED exitVars

\* send_to_chat from the participants query to the first send_json it awaits
send_to_chat(t, e, chat_id, exclude_user_id) ==
    LET snap == participants_of(chat_participants, chat_id)
        n == next_user(active_connections, snap, 1, exclude_user_id)
        b == [ev |-> e, snap |-> snap, pi |-> n.pi, it |-> n.it, cur |-> n.cur,
              excl |-> exclude_user_id, det |-> FALSE]
        h == [quiet |-> TRUE, stable |-> Registered, tried |-> {}, failed |-> {}]
    IN  Continue(t, n, b, h, inbox)

\* send_to_user: the send_json a task awaits returns (the transport is open) or
\* raises (it is closed), and the loops run on to the next send_json
SendStep(t) ==
    /\ pc[t] = "send"
    /\ LET b == bc[t]
           w == b.cur
           ok == alive[w]
           h == [g[t] EXCEPT !.tried = @ \cup {w},
                             !.failed = IF ok THEN @ ELSE @ \cup {w}]
           n == IF ~ok /\ ~swallow_send_error
                THEN [done |-> TRUE, raised |-> TRUE, pi |-> b.pi, it |-> b.it, cur |-> 0]
                ELSE resume(active_connections, b)
           nb == [b EXCEPT !.pi = n.pi, !.it = n.it, !.cur = n.cur,
                           !.det = IF n.pi = b.pi THEN b.det ELSE FALSE]
       IN  Continue(t, n, nb, h,
                    IF ok THEN [inbox EXCEPT ![w] = Append(@, b.ev)] ELSE inbox)
    /\ UNCHANGED <<svcVars, storeVars, authVars, messages, events, inVars>>

\* send_to_chat returns: a session goes back to receive_json, the route answers
Return(t) ==
    /\ pc[t] = "done"
    /\ pc' = [pc EXCEPT ![t] = IF t = HttpTask THEN "idle" ELSE "active"]
    /\ bc' = [bc EXCEPT ![t] = NoBc]
    /\ g' = [g EXCEPT ![t] = NoG]
    /\ UNCHANGED <<svcVars, storeVars, authVars, exitVars, messages, events, inbox, inVars>>

\* mutant of next_message_id: ids that do not grow with the rows
next_message_id_fixed(rows) == 1

\* the id the store gives the next row of messages (autoincrement primary key)
next_message_id(rows) == Len(rows) + 1

\* mutant of persist: the row is not written before the fan-out
persist_skipped(rows, chat_id, sender_id) == rows

\* db.add(db_message); db.commit(): the rows of messages with the new row
persist(rows, chat_id, sender_id) ==
    Append(rows, [id |-> next_message_id(rows), chat_id |-> chat_id, sender_id |-> sender_id])

\* the message branch of the receive loop: the participant check, then either the
\* error reply it awaits or the Message row and send_to_chat
MessageBranch(w, chat_id) ==
    IF ~is_participant(chat_participants, chat_id, user_id[w])
    THEN /\ pc' = [pc EXCEPT ![w] = "reply"]
         /\ UNCHANGED <<exitVars, messages, events, bc, g, inbox>>
    ELSE /\ messages' = persist(messages, chat_id, user_id[w])
         /\ events' = Append(events, [type |-> "message", chatId |-> chat_id,
                                      userId |-> user_id[w], task |-> w,
                                      message |-> next_message_id(messages)])
         /\ send_to_chat(w, Len(events) + 1, chat_id, None)

\* the typing and read branches of the receive loop
SignalBranch(w, type, chat_id) ==
    /\ events' = Append(events, [type |-> type, chatId |-> chat_id, userId |-> user_id[w],
                                 task |-> w, message |-> 0])
    /\ send_to_chat(w, Len(events) + 1, chat_id, user_id[w])
    /\ UNCHANGED messages

\* mutant of branch: the chain ends in an else that takes every other type as read
branch_fallthrough(type) ==
    IF type = "message" THEN "message"
    ELSE IF type = "typing" THEN "typing"
    ELSE "read"

\* the if/elif chain on data.get("type"): the branch an event of a type takes
branch(type) ==
    IF type = "message" THEN "message"
    ELSE IF type = "typing" THEN "typing"
    ELSE IF type = "read" THEN "read"
    ELSE "none"

\* one turn of the receive loop: receive_json returned a JSON object of some type
Receive(w, type, chat_id) ==
    /\ pc[w] = "active"
    /\ alive[w]
    /\ handled < MaxEvents
    /\ handled' = handled + 1
    /\ ignored' = IF type \in EventTypes THEN ignored ELSE <<w, handled + 1>>
    /\ CASE branch(type) = "message" -> MessageBranch(w, chat_id)
         [] branch(type) \in {"typing", "read"} -> SignalBranch(w, branch(type), chat_id)
         [] OTHER -> UNCHANGED <<exitVars, messages, events, pc, bc, inbox, g>>
    /\ UNCHANGED <<svcVars, storeVars, authVars>>

\* a message event
RecvMessage(w, chat_id) == Receive(w, "message", chat_id)

\* a typing or a read event
RecvSignal(w, type, chat_id) == Receive(w, type, chat_id)

\* an event whose type is none of message, typing, read
RecvOther(w, chat_id) == Receive(w, OtherType, chat_id)

\* a message event that carries no content: data.get("content") is None. A sender
\* who is no participant is sent the error reply; for a participant the commit of
\* the Message row raises (content is nullable=False) and the session ends in
\* except Exception.
RecvMessageNoContent(w, chat_id) ==
    /\ pc[w] = "active"
    /\ alive[w]
    /\ handled < MaxEvents
    /\ handled' = handled + 1
    /\ IF ~is_participant(chat_participants, chat_id, user_id[w])
       THEN /\ pc' = [pc EXCEPT ![w] = "reply"]
            /\ UNCHANGED <<exitVars, bc, g, inbox>>
       ELSE Handlers(w, user_id[w], FALSE)
    /\ UNCHANGED <<svcVars, storeVars, authVars, messages, events, ignored>>

\* the send_json of the error reply returns, and the loop continues; or it raises
Reply(w) ==
    /\ pc[w] = "reply"
    /\ IF alive[w]
       THEN /\ inbox' = [inbox EXCEPT ![w] = Append(@, ErrorEvent)]
            /\ pc' = [pc EXCEPT ![w] = "active"]
            /\ UNCHANGED <<exitVars, bc, g>>
       ELSE Handlers(w, user_id[w], FALSE)
    /\ UNCHANGED <<svcVars, storeVars, authVars, messages, events, inVars>>

\* POST /api/chats/{chat_id}/messages by an authenticated user
send_message(current_user, chat_id) ==
    /\ pc[HttpTask] = "idle"
    /\ handled < MaxEvents
    /\ handled' = handled + 1
    /\ IF ~is_participant(chat_participants, chat_id, current_user)
       THEN UNCHANGED <<exitVars, messages, events, pc, bc, g, inbox>>
       ELSE /\ messages' = persist(messages, chat_id, current_user)
            /\ events' = Append(events, [type |-> "message", chatId |-> chat_id,
                                         userId |-> current_user, task |-> HttpTask,
                                         message |-> next_message_id(messages)])
            /\ send_to_chat(HttpTask, Len(events) + 1, chat_id, None)
    /\ UNCHANGED <<svcVars, storeVars, authVars, ignored>>

\* ------------------------------------------------------------- participant rows

\* ChatService.add_participant
add_participant(conversation_id, u) ==
    /\ changes < MaxChanges
    /\ ~is_participant(chat_participants, conversation_id, u)
    /\ chat_participants' = [chat_participants EXCEPT ![conversation_id] = Append(@, u)]
    /\ changes' = changes + 1
    /\ UNCHANGED <<svcVars, authVars, exitVars, messages, events, pc, bc, inbox, g, inVars>>

\* ChatService.remove_participant: its own query for the row, then the delete
remove_participant(conversation_id, u) ==
    /\ changes < MaxChanges
    /\ u \in Range(chat_participants[conversation_id])
    /\ chat_participants' = [chat_participants EXCEPT
                                ![conversation_id] = ListRemove(@, u)]
    /\ changes' = changes + 1
    /\ UNCHANGED <<svcVars, authVars, exitVars, messages, events, pc, bc, inbox, g, inVars>>

\* ------------------------------------------------------------- MessageService

Msgs == 1..MaxMsgs
Contents == 1..MaxContents
Emojis == 1..MaxEmojis

\* Message.version of a new row
InitialVersion == 1

\* the calls that run at the same time, each with a database session of its own
Txns == 1..MaxTxns

\* a call that is not in progress
NoTxn == [op |-> "none", m |-> 0, u |-> 0, x |-> 0, status |-> "null", version |-> 0,
          content |-> 0, chat |-> 0]

\* no MessageService call has been made
NoCall == [op |-> "none", m |-> 0, u |-> 0, x |-> 0, had |-> FALSE, result |-> "none"]

\* select(Message).where(Message.id == message_id): the row exists
message_exists(rows, m) == m \in 1..Len(rows)

\* the message_status rows of a (message, user) pair
status_rows(rows, m, u) == {r \in rows : r.message_id = m /\ r.user_id = u}

\* the message_reactions rows of a (message, user, emoji) triple
reaction_rows(rows, m, u, emoji) ==
    {r \in rows : r.message_id = m /\ r.user_id = u /\ r.emoji = emoji}

\* whether the row a call is about was in its table when the call began: the
\* reaction of the triple, the status of the pair, or the message
Had(op, m, u, x) ==
    CASE op \in {"add_reaction", "remove_reaction"} ->
            reaction_rows(message_reactions, m, u, x) # {}
      [] op \in {"mark_as_delivered", "mark_as_read"} ->
            status_rows(message_status, m, u) # {}
      [] OTHER -> message_exists(service_messages, m)

\* the id the store gives the next row of a table (autoincrement primary key)
next_row_id(rows) == IF rows = {} THEN 1 ELSE 1 + CHOOSE k \in {r.id : r \in rows} :
                                                    \A r \in rows : r.id <= k

\* a MessageService call returns or raises, and leaves the tables as given
Returns(op, m, u, x, result, msgs, versions, status, reactions) ==
    /\ calls < MaxCalls
    /\ calls' = calls + 1
    /\ last' = [op |-> op, m |-> m, u |-> u, x |-> x, had |-> Had(op, m, u, x),
                result |-> result]
    /\ contents' = IF result # "message" THEN contents
                   ELSE IF op = "create_message" THEN Append(contents, <<x>>)
                   ELSE IF op = "update_message" THEN [contents EXCEPT ![m] = Append(@, x)]
                   ELSE contents
    /\ service_messages' = msgs
    /\ message_versions' = versions
    /\ message_status' = status
    /\ message_reactions' = reactions
    /\ UNCHANGED <<mainVars, txn>>

\* mutant of initial_status: the first status row of a message is written as read
initial_status_read(message) ==
    [message_id |-> message.id, user_id |-> message.sender_id, status |-> "read"]

\* create_message: MessageStatus(message_id=message.id, user_id=sender_id, status="sent")
initial_status(message) ==
    [message_id |-> message.id, user_id |-> message.sender_id, status |-> "sent"]

\* the foreign key messages.reply_to_id -> messages.id: a reply names a row
reply_to_exists(msgs, reply_to_id) ==
    reply_to_id = None \/ message_exists(msgs, reply_to_id)

\* MessageService.create_message: the Message row, built from the arguments as they
\* are, and the sender's "sent" status row. The flush of the Message raises when
\* reply_to_id names no row (foreign key), and nothing is written.
create_message(chat_id, sender_id, content, reply_to_id) ==
    LET id == Len(service_messages) + 1
        message == [id |-> id, conversation_id |-> chat_id, sender_id |-> sender_id,
                    content |-> content, version |-> InitialVersion,
                    deleted |-> FALSE, edited |-> FALSE, reply_to_id |-> reply_to_id]
    IN  IF ~reply_to_exists(service_messages, reply_to_id)
        THEN Returns("create_message", id, sender_id, content, "raised",
                     service_messages, message_versions, message_status,
                     message_reactions)
        ELSE /\ Len(service_messages) < MaxMsgs
             /\ Returns("create_message", id, sender_id, content, "message",
                        Append(service_messages, message),
                        message_versions,
                        message_status \cup {initial_status(message)},
                        message_reactions)

\* mutant of delivered_from: the row is set to delivered whatever it holds
delivered_always(status) == "delivered"

\* mark_as_delivered: the status it leaves in a row that exists
delivered_from(status) == IF status = "sent" THEN "delivered" ELSE status

\* MessageService.mark_as_delivered. A new row for a message that does not exist
\* breaks the foreign key of message_status, and the commit raises.
mark_as_delivered(m, u) ==
    LET rows == status_rows(message_status, m, u)
    IN  IF rows # {}
        THEN Returns("mark_as_delivered", m, u, 0, "true",
                     service_messages, message_versions,
                     (message_status \ rows)
                        \cup {[r EXCEPT !.status = delivered_from(r.status)] : r \in rows},
                     message_reactions)
        ELSE IF ~message_exists(service_messages, m)
        THEN Returns("mark_as_delivered", m, u, 0, "raised",
                     service_messages, message_versions, message_status, message_reactions)
        ELSE Returns("mark_as_delivered", m, u, 0, "true",
                     service_messages, message_versions,
                     message_status \cup {[message_id |-> m, user_id |-> u,
                                           status |-> "delivered"]},
                     message_reactions)

\* mutant of read_refused: only a missing message is refused
read_refused_missing_only(msgs, m, u) == ~message_exists(msgs, m)

\* mark_as_read: if not message or message.sender_id == user_id: return False
read_refused(msgs, m, u) == ~message_exists(msgs, m) \/ msgs[m].sender_id = u

\* MessageService.mark_as_read
mark_as_read(m, u) ==
    LET rows == status_rows(message_status, m, u)
    IN  IF read_refused(service_messages, m, u)
        THEN Returns("mark_as_read", m, u, 0, "false",
                     service_messages, message_versions, message_status, message_reactions)
        ELSE IF rows # {}
        THEN Returns("mark_as_read", m, u, 0, "true",
                     service_messages, message_versions,
                     (message_status \ rows) \cup {[r EXCEPT !.status = "read"] : r \in rows},
                     message_reactions)
        ELSE Returns("mark_as_read", m, u, 0, "true",
                     service_messages, message_versions,
                     message_status \cup {[message_id |-> m, user_id |-> u,
                                           status |-> "read"]},
                     message_reactions)

\* mutant of reaction_exists: the select for the triple is not made
reaction_exists_unchecked(rows, m, u, emoji) == FALSE

\* add_reaction: the select for the triple finds a row
reaction_exists(rows, m, u, emoji) == reaction_rows(rows, m, u, emoji) # {}

\* MessageService.add_reaction. The insert raises at the commit when the message does
\* not exist (foreign key) or the triple has a row (unique_message_user_reaction).
add_reaction(m, u, emoji) ==
    IF reaction_exists(message_reactions, m, u, emoji)
    THEN Returns("add_reaction", m, u, emoji,
                 IF message_exists(service_messages, m) THEN "message" ELSE "none",
                 service_messages, message_versions, message_status, message_reactions)
    ELSE IF ~message_exists(service_messages, m)
            \/ reaction_rows(message_reactions, m, u, emoji) # {}
    THEN Returns("add_reaction", m, u, emoji, "raised",
                 service_messages, message_versions, message_status, message_reactions)
    ELSE Returns("add_reaction", m, u, emoji, "message",
                 service_messages, message_versions, message_status,
                 message_reactions \cup {[id |-> next_row_id(message_reactions),
                                           message_id |-> m, user_id |-> u,
                                           emoji |-> emoji]})

\* mutant of without_reaction: every reaction of the user to the message is deleted
without_reaction_any_emoji(rows, m, u, emoji) ==
    {r \in rows : ~(r.message_id = m /\ r.user_id = u)}

\* remove_reaction: db.delete(reaction) of the row the select found
without_reaction(rows, m, u, emoji) == rows \ reaction_rows(rows, m, u, emoji)

\* MessageService.remove_reaction
remove_reaction(m, u, emoji) ==
    IF reaction_rows(message_reactions, m, u, emoji) = {}
    THEN Returns("remove_reaction", m, u, emoji, "false",
                 service_messages, message_versions, message_status, message_reactions)
    ELSE Returns("remove_reaction", m, u, emoji, "true",
                 service_messages, message_versions, message_status,
                 without_reaction(message_reactions, m, u, emoji))

\* mutant of snapshot: the row is written with the version after the increment
snapshot_incremented(msg) ==
    [message_id |-> msg.id, version |-> msg.version + 1, content |-> msg.content]

\* update_message: the MessageVersion row written before the message is changed
snapshot(msg) == [message_id |-> msg.id, version |-> msg.version, content |-> msg.content]

\* mutant of update_refused: only a missing message is refused
update_refused_missing_only(msgs, m, u) == ~message_exists(msgs, m)

\* update_message: if not message or message.sender_id != user_id: return None
update_refused(msgs, m, u) == ~message_exists(msgs, m) \/ msgs[m].sender_id # u

\* MessageService.update_message. The insert of the MessageVersion row raises at the
\* commit when the message has a row of that version (unique_message_version).
update_message(m, u, content) ==
    IF update_refused(service_messages, m, u)
    THEN Returns("update_message", m, u, content, "none",
                 service_messages, message_versions, message_status, message_reactions)
    ELSE LET msg == service_messages[m]
             row == snapshot(msg)
         IN  /\ msg.version < MaxVersion
             /\ IF \E r \in message_versions :
                       r.message_id = row.message_id /\ r.version = row.version
                THEN Returns("update_message", m, u, content, "raised",
                             service_messages, message_versions, message_status,
                             message_reactions)
                ELSE Returns("update_message", m, u, content, "message",
                             [service_messages EXCEPT
                                 ![m] = [msg EXCEPT !.content = content,
                                                    !.version = msg.version + 1,
                                                    !.edited = TRUE]],
                             message_versions \cup {row},
                             message_status, message_reactions)

\* mutant of delete_refused: only a missing message is refused
delete_refused_missing_only(msgs, m, u) == ~message_exists(msgs, m)

\* delete_message: the select by Message.id and Message.sender_id finds no row
delete_refused(msgs, m, u) == ~message_exists(msgs, m) \/ msgs[m].sender_id # u

\* MessageService.delete_message: message.deleted_at = datetime.utcnow()
delete_message(m, u) ==
    IF delete_refused(service_messages, m, u)
    THEN Returns("delete_message", m, u, 0, "false",
                 service_messages, message_versions, message_status, message_reactions)
    ELSE Returns("delete_message", m, u, 0, "true",
                 [service_messages EXCEPT ![m] = [@ EXCEPT !.deleted = TRUE]],
                 message_versions, message_status, message_reactions)

\* get_chat_messages: limit: int = 50
DefaultLimit == 50

\* mutant of listed: a soft-deleted message is listed for nobody
listed_undeleted_only(msg, chat_id, u) ==
    msg.conversation_id = chat_id /\ ~msg.deleted

\* get_chat_messages: the where clause, conversation_id == chat_id and
\* (deleted_at IS NULL or sender_id == user_id)
listed(msg, chat_id, u) ==
    msg.conversation_id = chat_id /\ (~msg.deleted \/ msg.sender_id = u)

\* MessageService.get_chat_messages: the rows of the where clause, those below
\* before_id when one is given, the newest `limit` of them, in chronological order.
\* Rows are created in the order of their ids.
get_chat_messages(chat_id, u, limit, before_id) ==
    LET query(msg) == /\ listed(msg, chat_id, u)
                      /\ (before_id # None => msg.id < before_id)
        rows == SelectSeq(service_messages, query)
        n == Len(rows)
    IN  SubSeq(rows, IF n > limit THEN n - limit + 1 ELSE 1, n)

\* the status column of a message that the outer join matched with no status row
NullStatus == "null"

\* get_unread_count: Message outer-joined with the MessageStatus rows of the user,
\* as pairs of a message id and a status
outerjoin(msgs, status, u) ==
    UNION {IF status_rows(status, m, u) = {}
           THEN {<<m, NullStatus>>}
           ELSE {<<m, r.status>> : r \in status_rows(status, m, u)} : m \in 1..Len(msgs)}

\* mutant of counted: a message is counted only when the user has a status row
counted_with_status_only(msg, status, conversation_id, u) ==
    /\ msg.conversation_id = conversation_id
    /\ msg.sender_id # u
    /\ ~msg.deleted
    /\ (status # NullStatus /\ status # "read")

\* get_unread_count: the where clause
counted(msg, status, conversation_id, u) ==
    /\ msg.conversation_id = conversation_id
    /\ msg.sender_id # u
    /\ ~msg.deleted
    /\ (status = NullStatus \/ status # "read")

\* ChatService.get_unread_count: count(Message.id) over the joined rows
unread_count(msgs, status, conversation_id, u) ==
    Cardinality({j \in outerjoin(msgs, status, u) :
                    counted(msgs[j[1]], j[2], conversation_id, u)})

\* ChatService.get_unread_count in the current state of the store
get_unread_count(conversation_id, u) ==
    unread_count(service_messages, message_status, conversation_id, u)

\* ------------------------------------------------------------- chat routes

\* the participant_ids that create_chat is called with
ParticipantLists == {<<1, 2>>, <<2, 3>>, <<1, 2, 3>>, <<3, 3>>}

\* a route of main.py that creates chats returns or raises, and leaves the
\* participant rows as given
Responds(op, current_user, contact_id, had, id, result, rows) ==
    /\ calls < MaxCalls
    /\ calls' = calls + 1
    /\ last' = [op |-> op, m |-> id, u |-> current_user, x |-> contact_id, had |-> had,
                result |-> result]
    /\ chat_participants' = rows
    /\ UNCHANGED <<changes, authVars, exitVars, messages, events, pc, bc, inbox, g, inVars,
                   service_messages, message_versions, message_status, message_reactions,
                   contents, txn>>

\* db.add(db_chat); db.commit(): the id of the new chat (autoincrement primary key)
new_chat_id(rows) == Len(rows) + 1

\* create_chat: the Chat row and a ChatParticipant row for each of participant_ids
create_chat(participant_ids) ==
    /\ Len(chat_participants) < MaxChats + MaxCreated
    /\ Responds("create_chat", None, None, FALSE, new_chat_id(chat_participants), "chat",
                Append(chat_participants, participant_ids))

\* mutant of direct_chats: the two rows are looked for in the order (caller, contact)
direct_chats_ordered(rows, current_user, contact_id) ==
    {c \in DOMAIN rows : rows[c] = <<current_user, contact_id>>}

\* create_or_get_direct_chat: Chat joined with the ChatParticipant rows whose user_id
\* is in [current_user.id, contact_id], grouped by chat, having count of rows == 2
direct_chats(rows, current_user, contact_id) ==
    {c \in DOMAIN rows :
        Cardinality({i \in 1..Len(rows[c]) : rows[c][i] \in {current_user, contact_id}}) = 2}

\* Query.first() of a query grouped by Chat.id: the chat of the lowest id, or None
first(chats) == IF chats = {} THEN None ELSE CHOOSE c \in chats : \A d \in chats : c <= d

\* create_or_get_direct_chat: the chat the query finds, or 404 for a contact that is
\* no user, or a new chat with the rows of the caller and the contact
create_or_get_direct_chat(current_user, contact_id) ==
    LET existing_chat == first(direct_chats(chat_participants, current_user, contact_id))
    IN  IF existing_chat # None
        THEN Responds("create_or_get_direct_chat", current_user, contact_id, TRUE,
                      existing_chat, "chat", chat_participants)
        ELSE IF contact_id \notin Users
        THEN Responds("create_or_get_direct_chat", current_user, contact_id, FALSE,
                      None, "raised", chat_participants)
        ELSE /\ Len(chat_participants) < MaxChats + MaxCreated
             /\ Responds("create_or_get_direct_chat", current_user, contact_id, FALSE,
                         new_chat_id(chat_participants), "chat",
                         Append(chat_participants, <<current_user, contact_id>>))

\* ------------------------------------------------------------- calls that interleave

\* A call has made its selects: what it read is kept in its session until it writes.
\* Calls take the sessions in order.
Selects(t, row) ==
    /\ calls < MaxCalls
    /\ txn[t] = NoTxn
    /\ \A s \in Txns : s < t => txn[s] # NoTxn
    /\ calls' = calls + 1
    /\ txn' = [txn EXCEPT ![t] = row]
    /\ UNCHANGED <<mainVars, service_messages, message_versions, message_status,
                   message_reactions, last, contents>>

\* A call in progress commits or raises at its commit, leaves the tables as given,
\* and returns.
Commits(t, had, result, msgs, versions, status) ==
    /\ last' = [op |-> txn[t].op, m |-> txn[t].m, u |-> txn[t].u, x |-> txn[t].x,
                had |-> had, result |-> result]
    /\ contents' = IF result = "message" /\ txn[t].op = "update_message"
                   THEN [contents EXCEPT ![txn[t].m] = Append(@, txn[t].x)]
                   ELSE contents
    /\ service_messages' = msgs
    /\ message_versions' = versions
    /\ message_status' = status
    /\ txn' = [txn EXCEPT ![t] = NoTxn]
    /\ UNCHANGED <<mainVars, message_reactions, calls>>

\* the status column of the row a select for (message_id, user_id) returns
selected_status(rows, m, u) ==
    IF status_rows(rows, m, u) = {} THEN NullStatus
    ELSE (CHOOSE r \in status_rows(rows, m, u) : TRUE).status

\* session.commit() of a loaded MessageStatus row whose status was assigned: the
\* UPDATE of the row, by its primary key
update_status(rows, m, u, status) ==
    {IF r.message_id = m /\ r.user_id = u THEN [r EXCEPT !.status = status] ELSE r :
        r \in rows}

\* the INSERT of a MessageStatus row raises at the commit: the message has no row
\* (foreign key) or the pair has one by now (unique_message_user_status)
insert_status_raises(msgs, rows, m, u) ==
    ~message_exists(msgs, m) \/ status_rows(rows, m, u) # {}

\* mark_as_delivered up to the result of its select
mark_as_delivered_select(t, m, u) ==
    Selects(t, [NoTxn EXCEPT !.op = "mark_as_delivered", !.m = m, !.u = u,
                             !.status = selected_status(message_status, m, u)])

\* mark_as_delivered from the result of its select: the row it read is set to
\* delivered when it read sent, or a delivered row is inserted when it read none
mark_as_delivered_commit(t) ==
    LET m == txn[t].m
        u == txn[t].u
        had == status_rows(message_status, m, u) # {}
    IN  /\ txn[t].op = "mark_as_delivered"
        /\ IF txn[t].status # NullStatus
           THEN Commits(t, had, "true", service_messages, message_versions,
                        IF txn[t].status = "sent"
                        THEN update_status(message_status, m, u,
                                           delivered_from(txn[t].status))
                        ELSE message_status)
           ELSE IF insert_status_raises(service_messages, message_status, m, u)
           THEN Commits(t, had, "raised", service_messages, message_versions,
                        message_status)
           ELSE Commits(t, had, "true", service_messages, message_versions,
                        message_status \cup {[message_id |-> m, user_id |-> u,
                                              status |-> "delivered"]})

\* mark_as_read up to the result of its selects, of the message and of the status
\* row; a call that is refused returns at once
mark_as_read_select(t, m, u) ==
    /\ ~read_refused(service_messages, m, u)
    /\ Selects(t, [NoTxn EXCEPT !.op = "mark_as_read", !.m = m, !.u = u,
                                !.status = selected_status(message_status, m, u)])

\* mark_as_read from the result of its selects: the row it read is set to read, or a
\* read row is inserted when it read none
mark_as_read_commit(t) ==
    LET m == txn[t].m
        u == txn[t].u
        had == status_rows(message_status, m, u) # {}
    IN  /\ txn[t].op = "mark_as_read"
        /\ IF txn[t].status # NullStatus
           THEN Commits(t, had, "true", service_messages, message_versions,
                        update_status(message_status, m, u, "read"))
           ELSE IF insert_status_raises(service_messages, message_status, m, u)
           THEN Commits(t, had, "raised", service_messages, message_versions,
                        message_status)
           ELSE Commits(t, had, "true", service_messages, message_versions,
                        message_status \cup {[message_id |-> m, user_id |-> u,
                                              status |-> "read"]})

\* mutant of version_row_exists: message_versions has no unique constraint
version_row_exists_unchecked(rows, row) == FALSE

\* unique_message_version: the table has a row of the message and the version
version_row_exists(rows, row) ==
    \E r \in rows : r.message_id = row.message_id /\ r.version = row.version

\* update_message up to the result of get_message; a call that is refused returns at
\* once
update_message_select(t, m, u, content) ==
    /\ ~update_refused(service_messages, m, u)
    /\ service_messages[m].version < MaxVersion
    /\ Selects(t, [NoTxn EXCEPT !.op = "update_message", !.m = m, !.u = u, !.x = content,
                                !.version = service_messages[m].version,
                                !.content = service_messages[m].content])

\* update_message from the result of get_message: the MessageVersion row of the
\* version and content it read, and the message set to the new content and to the
\* version it read plus one. The commit raises, and writes nothing, when the message
\* has a row of that version by now.
update_message_commit(t) ==
    LET m == txn[t].m
        row == snapshot([id |-> m, version |-> txn[t].version, content |-> txn[t].content])
    IN  /\ txn[t].op = "update_message"
        /\ IF version_row_exists(message_versions, row)
           THEN Commits(t, TRUE, "raised", service_messages, message_versions,
                        message_status)
           ELSE Commits(t, TRUE, "message",
                        [service_messages EXCEPT
                            ![m] = [@ EXCEPT !.content = txn[t].x,
                                             !.version = txn[t].version + 1,
                                             !.edited = TRUE]],
                        message_versions \cup {row},
                        message_status)

\* create_or_get_direct_chat up to the result of the existing_chat query and of the
\* User query: a call that finds a chat, or no contact, responds at once; another one
\* goes on to create the chat, in the threadpool of the sync routes, where another
\* call can run before it commits
create_or_get_direct_chat_lookup(t, current_user, contact_id) ==
    LET existing_chat == first(direct_chats(chat_participants, current_user, contact_id))
    IN  IF existing_chat # None \/ contact_id \notin Users
        THEN /\ txn[t] = NoTxn
             /\ create_or_get_direct_chat(current_user, contact_id)
        ELSE /\ Len(chat_participants) + Cardinality({s \in Txns : txn[s] # NoTxn})
                    < MaxChats + MaxCreated
             /\ Selects(t, [NoTxn EXCEPT !.op = "create_or_get_direct_chat",
                                         !.u = current_user, !.x = contact_id])

\* create_or_get_direct_chat from db.add(db_chat): the Chat row and the
\* ChatParticipant rows of the caller and the contact, and the response
create_or_get_direct_chat_create(t) ==
    /\ txn[t].op = "create_or_get_direct_chat"
    /\ last' = [op |-> txn[t].op, m |-> new_chat_id(chat_participants), u |-> txn[t].u,
                x |-> txn[t].x, had |-> FALSE, result |-> "chat"]
    /\ chat_participants' = Append(chat_participants, <<txn[t].u, txn[t].x>>)
    /\ txn' = [txn EXCEPT ![t] = NoTxn]
    /\ UNCHANGED <<changes, authVars, exitVars, messages, events, pc, bc, inbox, g, inVars,
                   service_messages, message_versions, message_status, message_reactions,
                   contents, calls>>

\* ------------------------------------------------------------- specifications

\* nothing is connected, and no message has been written
InitRest ==
    /\ changes = 0
    /\ active_connections = << >>
    /\ messages = << >>
    /\ events = << >>
    /\ pc = [t \in Tasks |-> "idle"]
    /\ token = [w \in Conns |-> NoToken]
    /\ user_id = [w \in Conns |-> None]
    /\ alive = [w \in Conns |-> FALSE]
    /\ close_code = [w \in Conns |-> 0]
    /\ bc = [t \in Tasks |-> NoBc]
    /\ inbox = [w \in Conns |-> << >>]
    /\ g = [t \in Tasks |-> NoG]
    /\ nDisc = [w \in Conns |-> 0]
    /\ wasReg = [w \in Conns |-> FALSE]
    /\ crashed = [w \in Conns |-> FALSE]
    /\ doneAtReg = [w \in Conns |-> {}]
    /\ handled = 0
    /\ ignored = <<0, 0>>
    /\ service_messages = << >>
    /\ message_versions = {}
    /\ message_status = {}
    /\ message_reactions = {}
    /\ calls = 0
    /\ last = NoCall
    /\ contents = << >>
    /\ txn = [t \in Txns |-> NoTxn]

\* The store holds the users and the chats, each created by create_chat with
\* participant_ids [1, 2]; nothing is connected.
Init ==
    /\ chat_participants = [c \in Chats |-> <<1, 2>>]
    /\ InitRest

\* connects, disconnects, inbound events and sends
Traffic ==
    \/ \E w \in 1..MaxOpen : Open(w)
    \/ \E w \in Conns : TransportClose(w)
    \/ \E w \in Conns : RecvDisconnect(w)
    \/ \E w \in Conns : RecvGarbage(w)
    \/ \E w \in Conns, c \in Chats : RecvMessageNoContent(w, c)
    \/ \E w \in Conns, c \in Chats : RecvOther(w, c)
    \/ \E w \in Conns, c \in Chats : RecvMessage(w, c)
    \/ \E w \in Conns : Reply(w)
    \/ \E w \in Conns, type \in {"typing", "read"}, c \in Chats : RecvSignal(w, type, c)
    \/ \E u \in Users, c \in Chats : send_message(u, c)
    \/ \E t \in Tasks : SendStep(t)
    \/ \E t \in Tasks : Return(t)

Next ==
    \/ Traffic
    \/ \E c \in Chats, u \in Users : add_participant(c, u)
    \/ \E c \in Chats, u \in Users : remove_participant(c, u)

Spec == Init /\ [][Next]_vars

\* the same over participant rows that do not change
NextFixed == Traffic

SpecFixed == Init /\ [][NextFixed]_vars

\* sessions of every websocket that open, close and send typing events
NextTyping ==
    \/ \E w \in Conns : Open(w)
    \/ \E w \in Conns : TransportClose(w)
    \/ \E w \in Conns : RecvDisconnect(w)
    \/ \E w \in Conns, c \in Chats : RecvSignal(w, "typing", c)
    \/ \E t \in Tasks : SendStep(t)
    \/ \E t \in Tasks : Return(t)

SpecTyping == Init /\ [][NextTyping]_vars

\* the calls of MessageService, each one transaction, over a store that starts empty
NextService ==
    \/ \E c \in Chats, u \in Users, content \in Contents : create_message(c, u, content, None)
    \/ \E m \in Msgs, u \in Users, content \in Contents : update_message(m, u, content)
    \/ \E m \in Msgs, u \in Users : mark_as_delivered(m, u)
    \/ \E m \in Msgs, u \in Users : mark_as_read(m, u)
    \/ \E m \in Msgs, u \in Users, emoji \in Emojis : add_reaction(m, u, emoji)
    \/ \E m \in Msgs, u \in Users, emoji \in Emojis : remove_reaction(m, u, emoji)

SpecService == Init /\ [][NextService]_vars

\* The store holds the users and two conversations, of users 1 and 2 and of users 2
\* and 3; no message has been written.
InitStore ==
    /\ chat_participants = [c \in Conversations |-> <<c, (c % MaxUsers) + 1>>]
    /\ InitRest

\* the calls of MessageService that write and hide messages, each one transaction,
\* with the conversation and the reply_to_id the caller passes
NextStore ==
    \/ \E c \in Conversations, u \in Users, r \in {None} \cup Msgs :
            create_message(c, u, 1, r)
    \/ \E m \in Msgs, u \in Users : update_message(m, u, 2)
    \/ \E m \in Msgs, u \in Users : delete_message(m, u)
    \/ \E m \in Msgs, u \in Users : mark_as_delivered(m, u)
    \/ \E m \in Msgs, u \in Users : mark_as_read(m, u)
    \/ \E m \in Msgs, u \in Users : add_reaction(m, u, 1)

SpecStore == InitStore /\ [][NextStore]_vars

\* the routes of main.py that create chats, called by authenticated users
NextDirect ==
    \/ \E participant_ids \in ParticipantLists : create_chat(participant_ids)
    \/ \E current_user \in Users, contact_id \in Users \cup {UnknownUser} :
            create_or_get_direct_chat(current_user, contact_id)

SpecDirect == Init /\ [][NextDirect]_vars

\* the sessions and routes of main.py that fan events out, with the calls of
\* MessageService that write and edit messages
NextEdit ==
    \/ \E w \in 1..MaxOpen : Open(w)
    \/ \E w \in Conns, c \in Chats : RecvMessage(w, c)
    \/ \E w \in Conns : Reply(w)
    \/ \E u \in Users, c \in Chats : send_message(u, c)
    \/ \E t \in Tasks : SendStep(t)
    \/ \E t \in Tasks : Return(t)
    \/ \E c \in Chats, u \in Users : calls < MaxEdits /\ create_message(c, u, 1, None)
    \/ \E m \in Msgs, u \in Users : calls < MaxEdits /\ update_message(m, u, 2)

\* the steps that need no further input: a send_json that was awaited returns or
\* raises, and a send_to_chat call returns
Resume ==
    \/ \E w \in Conns : Reply(w)
    \/ \E t \in Tasks : SendStep(t)
    \/ \E t \in Tasks : Return(t)

\* The event loop runs every task that can run. Connections, inbound events,
\* requests and service calls arrive or not: a session with nothing to receive
\* waits at receive_json.
SpecEdit == Init /\ [][NextEdit]_vars /\ WF_vars(Resume)

\* The event loop runs every task that can run: an awaited send_json returns or
\* raises, a send_to_chat call returns to its caller, and a receive_json on a closed
\* transport raises WebSocketDisconnect. Connections, inbound events and requests
\* arrive or not.
Fairness ==
    /\ \A t \in Tasks : WF_vars(SendStep(t) \/ Return(t))
    /\ \A w \in Conns : WF_vars(Reply(w))
    /\ \A w \in Conns : WF_vars(RecvDisconnect(w))

SpecLive == Init /\ [][NextFixed]_vars /\ Fairness

\* mark_as_delivered and mark_as_read calls that run at the same time, each in a
\* session of its own, over messages that create_message wrote
NextStatus ==
    \/ \E c \in Chats, u \in Users : create_message(c, u, 1, None)
    \/ \E t \in Txns, m \in Msgs, u \in Users : mark_as_delivered_select(t, m, u)
    \/ \E t \in Txns : mark_as_delivered_commit(t)
    \/ \E t \in Txns, m \in Msgs, u \in Users : mark_as_read_select(t, m, u)
    \/ \E t \in Txns : mark_as_read_commit(t)

SpecStatus == Init /\ [][NextStatus]_vars

\* update_message calls that run at the same time, each in a session of its own,
\* over messages that create_message wrote
NextEdits ==
    \/ \E c \in Chats, u \in Users : create_message(c, u, 1, None)
    \/ \E t \in Txns, m \in Msgs, u \in Users, content \in Contents :
            update_message_select(t, m, u, content)
    \/ \E t \in Txns : update_message_commit(t)

SpecEdits == Init /\ [][NextEdits]_vars

\* create_or_get_direct_chat requests that run at the same time
NextDirectRace ==
    \/ \E t \in Txns, current_user \in Users, contact_id \in Users \cup {UnknownUser} :
            create_or_get_direct_chat_lookup(t, current_user, contact_id)
    \/ \E t \in Txns : create_or_get_direct_chat_create(t)

SpecDirectRace == Init /\ [][NextDirectRace]_vars

\* ------------------------------------------------------------- properties

\* the users an event of the store's chat is meant for: the participants, less the
\* sender for typing and read
Recipients(e) ==
    Range(chat_participants[events[e].chatId])
        \ (IF events[e].type = "message" THEN {} ELSE {events[e].userId})

\* the websocket is registered and its session has not ended
Open_(w) == pc[w] \in {"active", "reply", "send", "done"}

\* A send_to_chat call that returned has sent to every connection of the users in R
\* that was registered from the call's start to its return, and each one whose send
\* did not raise has the event.
Delivery(t, R) ==
    \A w \in g[t].stable :
        user_id[w] \in R =>
            /\ w \in g[t].tried
            /\ (w \notin g[t].failed /\ Open_(w)) => bc[t].ev \in Range(inbox[w])

\* C1 (the claim as stated): a message event of chat c is in the frames of no
\* connection whose user is not a participant of c, and a send_to_chat call for it
\* that returned has sent it to every connection of the other participants of c that
\* was registered throughout the call.
C1_FanoutExcludesNonParticipants ==
    /\ \A w \in Conns : \A i \in 1..Len(inbox[w]) :
          (inbox[w][i] # ErrorEvent /\ events[inbox[w][i]].type = "message")
              => user_id[w] \in Range(chat_participants[events[inbox[w][i]].chatId])
    /\ \A t \in Tasks :
          (pc[t] = "done" /\ events[bc[t].ev].type = "message")
              => Delivery(t, Recipients(bc[t].ev) \ {events[bc[t].ev].userId})

\* C2: a Message row is written and a message event fanned out only for a sender who
\* is then a participant; the step that rejects a message event changes no row, no
\* frame and no registration, and when the awaited error reply is sent the error frame
\* goes to that connection alone, which stays registered and is back at receive_json.
C2_NonParticipantMessageRejected ==
    [][ /\ Len(messages') > Len(messages) =>
              messages'[Len(messages')].sender_id
                  \in Range(chat_participants[messages'[Len(messages')].chat_id])
        /\ (Len(events') > Len(events) /\ events'[Len(events')].type = "message") =>
              events'[Len(events')].userId
                  \in Range(chat_participants[events'[Len(events')].chatId])
        /\ \A w \in Conns :
              /\ (pc[w] = "active" /\ pc'[w] = "reply") =>
                    /\ messages' = messages /\ events' = events /\ inbox' = inbox
                    /\ active_connections' = active_connections
                    /\ w \in Registered
              /\ (pc[w] = "reply" /\ pc'[w] # "reply" /\ alive[w]) =>
                    /\ pc'[w] = "active"
                    /\ inbox' = [inbox EXCEPT ![w] = Append(@, ErrorEvent)]
                    /\ messages' = messages /\ events' = events
                    /\ active_connections' = active_connections
                    /\ w \in Registered
      ]_vars

\* a user who lost the participant row while connected was answered with the error
\* frame, is still registered and is back at receive_json after a second event
C2_Witness ==
    \E w \in Conns :
        /\ pc[w] = "active" /\ w \in Registered
        /\ changes > 0
        /\ \A c \in Chats : user_id[w] \notin Range(chat_participants[c])
        /\ Len(inbox[w]) = 2 /\ inbox[w][2] = ErrorEvent
        /\ handled = 2

\* a token that is invalid, has no subject or names no user
BadToken(tok) == ~tok.valid \/ tok.sub = None \/ tok.sub \notin Users

\* C3: a session opened with a token that is invalid, carries no subject or names a
\* user that does not exist is closed with code 4001, was never registered and is in
\* no list of the registry, and has been sent no frame.
C3_AuthFailureNeverRegistered ==
    \A w \in Conns :
        (pc[w] # "idle" /\ BadToken(token[w])) =>
            /\ pc[w] = "closed"
            /\ close_code[w] = AuthCloseCode
            /\ ~wasReg[w]
            /\ w \notin Registered
            /\ \A u \in DOMAIN active_connections : u \in Users
            /\ inbox[w] = << >>
            /\ nDisc[w] = 0

\* a session whose token names no user is closed with 4001 while an event has been
\* fanned out to another connection
C3_Witness ==
    \E w, v \in Conns :
        /\ pc[w] = "closed" /\ close_code[w] = AuthCloseCode
        /\ token[w].valid /\ token[w].sub = UnknownUser
        /\ inbox[v] # << >>

\* C4 (the claim as stated): manager.disconnect is called exactly once for a session
\* that was registered and has ended, never twice, and never for a session that was
\* not registered.
C4_DisconnectExactlyOnce ==
    \A w \in Conns :
        /\ nDisc[w] <= 1
        /\ (pc[w] = "closed" /\ wasReg[w]) => nDisc[w] = 1
        /\ ~wasReg[w] => nDisc[w] = 0

\* C5 (the claim as stated): disconnect of a connection that is not registered raises
\* nothing, whatever the registry holds.
C5_UnregisterIdempotent ==
    \A w \in Conns : ~crashed[w]

\* C6 (the claim as stated): once send_to_chat has returned, a connection whose send
\* failed in it is no longer in active_connections.
C6_FailedSendUnregisters ==
    \A t \in Tasks : pc[t] = "done" => g[t].failed \cap Registered = {}

\* C7 (the claim as stated): a send_to_chat call in which a send raised has returned
\* to its caller having sent the event to every other connection of the recipients
\* that was registered throughout the call.
C7_SendFailureDoesNotAbort ==
    \A t \in Tasks :
        (pc[t] = "done" /\ g[t].failed # {})
            => Delivery(t, Recipients(bc[t].ev))

\* C8 (the claim as stated): a connection that stays registered from the start of a
\* send_to_chat call to its return, and whose user is a recipient, was sent the event.
C8_MultiConnectionDelivery ==
    \A t \in Tasks :
        pc[t] = "done" =>
            \A w \in g[t].stable : user_id[w] \in Recipients(bc[t].ev) => w \in g[t].tried

\* C9: starting a broadcast and each of its sends change no registration, a
\* send_to_chat call ends no session and goes from send to send or to its return,
\* a call whose recipients have no registered connection sends to no connection, and
\* no connection has an event whose delivery to its user was over when it registered.
C9_OfflineNotBuffered ==
    /\ [][Len(events') > Len(events) =>
            /\ active_connections' = active_connections
            /\ \A w \in Conns : pc[w] # "closed" => pc'[w] # "closed"]_vars
    /\ [][\A t \in Tasks :
            /\ pc[t] = "send" => pc'[t] \in {"send", "done"}
            /\ g'[t].tried # g[t].tried => active_connections' = active_connections]_vars
    /\ [](\A t \in Tasks :
            (pc[t] = "done" /\ g[t].quiet
                /\ \A w \in g[t].stable : user_id[w] \notin Recipients(bc[t].ev))
                => g[t].tried = {})
    /\ [](\A w \in Conns : \A i \in 1..Len(inbox[w]) : inbox[w][i] \notin doneAtReg[w])

\* a recipient registered its only connection after the delivery of an event to it
\* was over, and the open connection has not been sent the event
C9_Witness ==
    \E w \in Conns, e \in 1..Len(events) :
        /\ pc[w] = "active" /\ alive[w]
        /\ active_connections[user_id[w]] = <<w>>
        /\ e \in doneAtReg[w]
        /\ user_id[w] \in Recipients(e)
        /\ e \notin Range(inbox[w])

\* C10 (the claim as stated): a typing event is in the frames of no connection of its
\* sender, and a send_to_chat call for it that returned has sent it to every
\* connection of the other participants that was registered throughout the call.
C10_TypingExcludesSender ==
    /\ \A w \in Conns : \A i \in 1..Len(inbox[w]) :
          (inbox[w][i] # ErrorEvent /\ events[inbox[w][i]].type = "typing")
              => user_id[w] # events[inbox[w][i]].userId
    /\ \A t \in Tasks :
          (pc[t] = "done" /\ events[bc[t].ev].type = "typing")
              => Delivery(t, Range(chat_participants[events[bc[t].ev].chatId])
                                \ {events[bc[t].ev].userId})

\* C11: the step in which a session receives an event of no known type writes no
\* row, hands nothing to send_to_chat, sends no frame, changes no registration and
\* leaves the session where it was, at receive_json of a registered websocket.
C11_UnknownTypeIgnored ==
    [][ignored' # ignored =>
          /\ messages' = messages /\ events' = events /\ inbox' = inbox
          /\ bc' = bc /\ g' = g
          /\ active_connections' = active_connections
          /\ pc' = pc
          /\ pc[ignored'[1]] = "active"
          /\ ignored'[1] \in Registered
       ]_vars

\* the first inbound event was of no known type, and a message the same session
\* sent after it has been persisted and has reached a websocket
C11_Witness ==
    \E e \in 1..Len(events), v \in Conns :
        /\ ignored[2] = 1
        /\ events[e].task = ignored[1]
        /\ events[e].type = "message"
        /\ Len(messages) = 1
        /\ e \in Range(inbox[v])
        /\ pc[ignored[1]] = "active"

\* C12 (the claim as stated): a typing or read event is handed to send_to_chat, and
\* is in the frames of a websocket, only when its sender is a participant of the chat
\* it refers to.
C12_SignalMembershipChecked ==
    /\ \A e \in 1..Len(events) :
          events[e].type \in {"typing", "read"}
              => events[e].userId \in Range(chat_participants[events[e].chatId])
    /\ \A w \in Conns : \A i \in 1..Len(inbox[w]) :
          (inbox[w][i] # ErrorEvent /\ events[inbox[w][i]].type \in {"typing", "read"})
              => events[inbox[w][i]].userId
                    \in Range(chat_participants[events[inbox[w][i]].chatId])

\* C13 (the claim as stated): a send_to_chat call that began after the participant
\* rows of its chat were last changed has sent to no websocket of a user who is not
\* a participant, and has sent the event to every websocket of the participants
\* (less the excluded one) that was registered throughout the call.
C13_MembershipFresh ==
    \A t \in Tasks :
        (/\ pc[t] = "done"
         /\ changes > 0
         /\ bc[t].snap = chat_participants[events[bc[t].ev].chatId])
            => /\ \A w \in g[t].tried : user_id[w] \in Recipients(bc[t].ev)
               /\ Delivery(t, Recipients(bc[t].ev))

\* the message events that one websocket session submitted
SubmittedBy(w) == {e \in 1..Len(events) : events[e].type = "message" /\ events[e].task = w}

\* C14: of two message events that one websocket session submitted, the one
\* submitted first has the row with the smaller id, written first, and stands first
\* in the frames of every websocket that has been sent both.
C14_SameSenderOrder ==
    \A w \in Conns : \A e1, e2 \in SubmittedBy(w) :
        e1 < e2 =>
            /\ events[e1].message < events[e2].message
            /\ \E i, j \in 1..Len(messages) :
                  /\ i < j
                  /\ messages[i].id = events[e1].message
                  /\ messages[j].id = events[e2].message
            /\ \A v \in Conns : \A i, j \in 1..Len(inbox[v]) :
                  (inbox[v][i] = e1 /\ inbox[v][j] = e2) => i < j

\* a websocket of another user has been sent both messages of one session
C14_Witness ==
    \E w, v \in Conns :
        /\ w # v
        /\ user_id[v] # user_id[w]
        /\ Cardinality(SubmittedBy(w)) = 2
        /\ Len(inbox[v]) = 2
        /\ Range(inbox[v]) = SubmittedBy(w)

\* the row of messages a message event was made from is in the store
Persisted(e) ==
    \E i \in 1..Len(messages) :
        /\ messages[i].id = events[e].message
        /\ messages[i].chat_id = events[e].chatId
        /\ messages[i].sender_id = events[e].userId

\* C15: the row of a message event is in the store from the moment the event is
\* handed to send_to_chat, so before any websocket is sent it; no step removes or
\* changes a row of messages, whatever sends fail; and a send_to_chat call sends to
\* no websocket twice and no websocket is sent an event twice.
C15_PersistBeforeFanout ==
    /\ [](\A e \in 1..Len(events) : events[e].type = "message" => Persisted(e))
    /\ [](\A w \in Conns : \A i \in 1..Len(inbox[w]) :
            (inbox[w][i] # ErrorEvent /\ events[inbox[w][i]].type = "message")
                => Persisted(inbox[w][i]))
    /\ [][/\ Len(messages') >= Len(messages)
          /\ SubSeq(messages', 1, Len(messages)) = messages]_vars
    /\ [](\A t \in Tasks : pc[t] = "send" => bc[t].cur \notin g[t].tried)
    /\ [](\A w \in Conns : \A i, j \in 1..Len(inbox[w]) :
            (i # j /\ inbox[w][i] = inbox[w][j]) => inbox[w][i] = ErrorEvent)

\* the fan-out of a message has returned after a send that raised and a send that
\* did not, and the row of the message is in the store
C15_Witness ==
    \E t \in Tasks :
        /\ pc[t] = "done"
        /\ events[bc[t].ev].type = "message"
        /\ g[t].failed # {}
        /\ g[t].tried # g[t].failed
        /\ Persisted(bc[t].ev)

\* the order of the delivery states
Rank(status) == CASE status = "sent" -> 1 [] status = "delivered" -> 2 [] status = "read" -> 3

\* C16: no MessageService call takes the status row of a (message, user) pair away
\* or back in the order sent < delivered < read; mark_as_delivered leaves a read row
\* read; and a mark_as_delivered or mark_as_read call that repeats the call before it
\* leaves the row as the first call left it.
C16_ForwardOnlyStatus ==
    [][\A m \in Msgs, u \in Users :
          /\ \A r \in status_rows(message_status, m, u) :
                /\ status_rows(message_status', m, u) # {}
                /\ \A r2 \in status_rows(message_status', m, u) :
                      Rank(r2.status) >= Rank(r.status)
          /\ (/\ last'.op = "mark_as_delivered" /\ last'.m = m /\ last'.u = u
              /\ calls' # calls
              /\ \E r \in status_rows(message_status, m, u) : r.status = "read")
                => status_rows(message_status', m, u) = status_rows(message_status, m, u)
          /\ (/\ last'.op \in {"mark_as_delivered", "mark_as_read"}
              /\ calls' # calls
              /\ last.op = last'.op /\ last.m = m /\ last'.m = m /\ last.u = u /\ last'.u = u
              /\ last.result = "true")
                => /\ status_rows(message_status', m, u) = status_rows(message_status, m, u)
                   /\ last'.result = "true"
       ]_vars

\* mark_as_delivered has returned for a pair whose row was read, and the row is read
C16_Witness ==
    /\ last.op = "mark_as_delivered"
    /\ last.result = "true"
    /\ calls >= 3
    /\ \E r \in status_rows(message_status, last.m, last.u) : r.status = "read"

\* C17: a mark_as_read call for a message that does not exist, or by the sender of
\* the message, returns False and changes no row of message_status nor of any other
\* table.
C17_SelfReadRejected ==
    [][(/\ calls' # calls
        /\ last'.op = "mark_as_read"
        /\ \/ last'.m \notin 1..Len(service_messages)
           \/ service_messages[last'.m].sender_id = last'.u)
          => /\ last'.result = "false"
             /\ message_status' = message_status
             /\ service_messages' = service_messages
             /\ message_versions' = message_versions
             /\ message_reactions' = message_reactions
       ]_vars

\* the sender's mark_as_read of its own message has returned False, and the only
\* status row of the message is the sender's sent row
C17_Witness ==
    /\ last.op = "mark_as_read"
    /\ last.result = "false"
    /\ last.m \in 1..Len(service_messages)
    /\ service_messages[last.m].sender_id = last.u
    /\ {r \in message_status : r.message_id = last.m}
          = {[message_id |-> last.m, user_id |-> last.u, status |-> "sent"]}

\* C18: no (message, user, emoji) triple ever has two rows of message_reactions, and
\* an add_reaction call for a triple that has a row returns the message, raises
\* nothing and leaves message_reactions as it was.
C18_IdempotentReactionAdd ==
    /\ [](\A m \in Msgs, u \in Users, emoji \in Emojis :
            Cardinality(reaction_rows(message_reactions, m, u, emoji)) <= 1)
    /\ [][(/\ calls' # calls
           /\ last'.op = "add_reaction"
           /\ reaction_rows(message_reactions, last'.m, last'.u, last'.x) # {})
             => /\ last'.result = "message"
                /\ message_reactions' = message_reactions
          ]_vars

\* add_reaction has returned the message for a triple that had its row, next to a
\* row of another triple
C18_Witness ==
    /\ last.op = "add_reaction"
    /\ last.had
    /\ last.result = "message"
    /\ Cardinality(reaction_rows(message_reactions, last.m, last.u, last.x)) = 1
    /\ Cardinality(message_reactions) = 2

\* C19: a remove_reaction call for a triple that has no row returns False, raises
\* nothing and leaves message_reactions as it was; for a triple that has a row it
\* returns True and takes away that one row and no other.
C19_RemoveReaction ==
    [][(calls' # calls /\ last'.op = "remove_reaction") =>
          LET rows == reaction_rows(message_reactions, last'.m, last'.u, last'.x)
          IN  IF rows = {}
              THEN /\ last'.result = "false"
                   /\ message_reactions' = message_reactions
              ELSE /\ last'.result = "true"
                   /\ Cardinality(rows) = 1
                   /\ message_reactions' = message_reactions \ rows
       ]_vars

\* remove_reaction has returned True for a triple that had its row, and the row of
\* the same user and message for another emoji is still there
C19_Witness ==
    /\ last.op = "remove_reaction"
    /\ last.had
    /\ last.result = "true"
    /\ reaction_rows(message_reactions, last.m, last.u, last.x) = {}
    /\ \E r \in message_reactions : r.message_id = last.m /\ r.user_id = last.u

\* C20: a message that was created at version 1 and has had n successful edits is at
\* version n + 1 with the content of the last edit, its MessageVersion rows are the
\* versions 1..n, the row of version k holding the content the message had before
\* the k-th edit, and no call changes or deletes a MessageVersion row.
C20_EditHistory ==
    /\ [](\A m \in 1..Len(service_messages) :
            LET n == Len(contents[m]) - 1
            IN  /\ service_messages[m].version = n + 1
                /\ service_messages[m].content = contents[m][n + 1]
                /\ {r \in message_versions : r.message_id = m}
                      = {[message_id |-> m, version |-> k, content |-> contents[m][k]] :
                            k \in 1..n})
    /\ [][message_versions \subseteq message_versions']_vars

\* a message has been edited twice, the first time to another content
C20_Witness ==
    \E m \in 1..Len(service_messages) :
        /\ Len(contents[m]) = 3
        /\ contents[m][1] # contents[m][2]
        /\ service_messages[m].version = 3
        /\ Cardinality({r \in message_versions : r.message_id = m}) = 2

\* C21: an update_message call for a message id that has no row, or by a user who is
\* not the sender of the message, returns no message and leaves every table as it
\* was: content, version and edited_at of every message, and the MessageVersion rows.
C21_UpdateRefusedNoMutation ==
    [][ (calls' # calls /\ last'.op = "update_message"
            /\ (~message_exists(service_messages, last'.m)
                   \/ service_messages[last'.m].sender_id # last'.u)) =>
          /\ last'.result = "none"
          /\ service_messages' = service_messages
          /\ message_versions' = message_versions
          /\ message_status' = message_status
          /\ message_reactions' = message_reactions
          /\ contents' = contents
      ]_vars

\* a user who is not the sender asked to edit a message its sender had edited
\* before, and was refused
C21_Witness ==
    /\ last.op = "update_message" /\ last.result = "none" /\ last.had
    /\ service_messages[last.m].sender_id # last.u
    /\ service_messages[last.m].version = InitialVersion + 1
    /\ Len(contents[last.m]) = 2
    /\ \E r \in message_versions : r.message_id = last.m

\* C22: delete_message(m, u) by the sender of an existing message returns True and
\* changes nothing but deleted_at of that row: the row, its content and its version
\* stay, and so do all MessageVersion, MessageStatus and MessageReaction rows; by any
\* other user, or for a message that has no row, it returns False and changes nothing.
C22_SoftDeleteBySender ==
    [][ (calls' # calls /\ last'.op = "delete_message") =>
          /\ message_versions' = message_versions
          /\ message_status' = message_status
          /\ message_reactions' = message_reactions
          /\ contents' = contents
          /\ Len(service_messages') = Len(service_messages)
          /\ IF message_exists(service_messages, last'.m)
                /\ service_messages[last'.m].sender_id = last'.u
             THEN /\ last'.result = "true"
                  /\ service_messages'[last'.m].deleted
                  /\ \A k \in 1..Len(service_messages) :
                        [service_messages'[k] EXCEPT !.deleted = service_messages[k].deleted]
                            = service_messages[k]
                  /\ \A k \in 1..Len(service_messages) :
                        k # last'.m => service_messages'[k] = service_messages[k]
             ELSE /\ last'.result = "false"
                  /\ service_messages' = service_messages
      ]_vars

\* the sender deleted a message that had been edited and reacted to and has its
\* MessageVersion, MessageStatus and MessageReaction rows
C22_Witness ==
    /\ last.op = "delete_message" /\ last.result = "true"
    /\ service_messages[last.m].deleted
    /\ service_messages[last.m].version = InitialVersion + 1
    /\ \E r \in message_versions : r.message_id = last.m
    /\ \E r \in message_reactions : r.message_id = last.m
    /\ \E r \in message_status : r.message_id = last.m /\ r.user_id = last.u

Unread(msgs, status, c, u) ==
    {m \in 1..Len(msgs) :
        /\ msgs[m].conversation_id = c
        /\ msgs[m].sender_id # u
        /\ ~msgs[m].deleted
        /\ \A r \in status : (r.message_id = m /\ r.user_id = u) => r.status # "read"}

\* C24: in every state of the store get_unread_count(c, u) is the number of messages
\* of c that another user sent, that are not soft-deleted and that u has no status
\* row for or a row that is not read, so a message u sent never counts; and a
\* mark_as_read(m, u) that returns True for a counted message lowers the count of
\* that conversation by exactly one and changes no other count of u.
C24_UnreadCount ==
    /\ [](\A c \in Conversations, u \in Users :
            /\ get_unread_count(c, u)
                  = Cardinality(Unread(service_messages, message_status, c, u))
            /\ get_unread_count(c, u)
                  <= Cardinality({m \in 1..Len(service_messages) :
                                     service_messages[m].sender_id # u}))
    /\ [][ (calls' # calls /\ last'.op = "mark_as_read" /\ last'.result = "true") =>
             \A c \in Conversations :
                unread_count(service_messages', message_status', c, last'.u)
                    = get_unread_count(c, last'.u)
                        - (IF last'.m \in Unread(service_messages, message_status,
                                                 c, last'.u)
                           THEN 1 ELSE 0)
         ]_vars

\* a user with two messages from another user in a conversation, one of them
\* delivered, has read the other: the count is one
C24_Witness ==
    \E c \in Conversations :
        /\ last.op = "mark_as_read" /\ last.result = "true"
        /\ Len(service_messages) = 2
        /\ \A m \in 1..2 : /\ service_messages[m].conversation_id = c
                           /\ service_messages[m].sender_id # last.u
        /\ \E r \in message_status :
              r.user_id = last.u /\ r.message_id # last.m /\ r.status = "delivered"
        /\ get_unread_count(c, last.u) = 1

\* C26 (the claim as stated): create_message writes a Message row, and the status
\* row of its sender, only for a sender who is a participant of the conversation at
\* the time of the call.
C26_CreateValidatesMembership ==
    [][ /\ Len(service_messages') > Len(service_messages) =>
              service_messages'[Len(service_messages')].sender_id
                  \in Range(chat_participants[
                                service_messages'[Len(service_messages')].conversation_id])
        /\ \A r \in message_status' \ message_status :
              r.status = "sent" =>
                  r.user_id \in Range(chat_participants[
                                          service_messages'[r.message_id].conversation_id])
      ]_vars

\* C27 (the claim as stated): every message that has a reply_to_id names a message
\* that exists and is of the same conversation, and a create_message call whose
\* reply_to_id names no message, or a message of another conversation, writes no row.
C27_ReplyToSameConversation ==
    /\ [](\A m \in 1..Len(service_messages) :
            service_messages[m].reply_to_id # None =>
                /\ message_exists(service_messages, service_messages[m].reply_to_id)
                /\ service_messages[service_messages[m].reply_to_id].conversation_id
                      = service_messages[m].conversation_id)
    /\ [][ Len(service_messages') > Len(service_messages) =>
              LET message == service_messages'[Len(service_messages')]
              IN  message.reply_to_id # None =>
                      /\ message_exists(service_messages, message.reply_to_id)
                      /\ service_messages[message.reply_to_id].conversation_id
                            = message.conversation_id
         ]_vars

\* C28: a create_message call that returns the message has appended one row, with
\* version 1, no deleted_at, no edited_at and an id above that of every earlier row,
\* has left the earlier rows as they were, and has written exactly one status row for
\* the new message: that of its sender, with status sent.
C28_CreatedMessageState ==
    [][ (calls' # calls /\ last'.op = "create_message" /\ last'.result = "message") =>
          LET message == service_messages'[Len(service_messages')]
          IN  /\ Len(service_messages') = Len(service_messages) + 1
              /\ SubSeq(service_messages', 1, Len(service_messages)) = service_messages
              /\ message.id = last'.m
              /\ \A k \in 1..Len(service_messages) : service_messages[k].id < message.id
              /\ message.version = 1
              /\ ~message.deleted
              /\ ~message.edited
              /\ {r \in message_status' : r.message_id = message.id}
                    = {[message_id |-> message.id, user_id |-> message.sender_id,
                        status |-> "sent"]}
              /\ {r \in message_status' : r.message_id # message.id} = message_status
              /\ message_versions' = message_versions
              /\ message_reactions' = message_reactions
      ]_vars

\* the second message has just been created, as a reply to the first, which has
\* been edited and deleted since its creation
C28_Witness ==
    /\ last.op = "create_message" /\ last.result = "message" /\ last.m = 2
    /\ Len(service_messages) = 2
    /\ service_messages[2].reply_to_id = 1
    /\ service_messages[1].edited /\ service_messages[1].deleted
    /\ service_messages[1].version = InitialVersion + 1

\* C25: when create_or_get_direct_chat has returned a chat for the pair of distinct
\* users A and B, the next call for the same pair, by A for B or by B for A, returns
\* the same chat id and writes no Chat row and no ChatParticipant row.
C25_DirectChatUnique ==
    [][ (/\ calls' # calls
         /\ last.op = "create_or_get_direct_chat" /\ last.result = "chat"
         /\ last'.op = "create_or_get_direct_chat"
         /\ last.u # last.x
         /\ {last'.u, last'.x} = {last.u, last.x}) =>
          /\ last'.result = "chat"
          /\ last'.m = last.m
          /\ last'.had
          /\ chat_participants' = chat_participants
      ]_vars

\* user 3 asked for the chat with user 1 and got a new chat; user 1 then asked for
\* the chat with user 3 and got that chat, the last of the store
C25_Witness ==
    /\ last.op = "create_or_get_direct_chat" /\ last.result = "chat" /\ last.had
    /\ last.u = 1 /\ last.x = 3
    /\ last.m = Len(chat_participants) /\ last.m > MaxChats
    /\ chat_participants[last.m] = <<3, 1>>

\* C30 (the claim as stated): the step in which a session receives a malformed
\* event, a frame that is no JSON object or a message event without content, writes
\* no Message row, hands nothing to send_to_chat, and leaves the connection open and
\* registered, at receive_json or at the send of an error reply.
C30_MalformedEventKeepsConnection ==
    [][ \A w \in Conns :
          (RecvGarbage(w) \/ \E c \in Chats : RecvMessageNoContent(w, c)) =>
              /\ messages' = messages
              /\ events' = events
              /\ pc'[w] \in {"active", "reply"}
              /\ active_connections' = active_connections
              /\ alive'[w]
      ]_vars

\* C29 (the claim as stated): once an update_message call has edited message m, a
\* message_edited event for m is handed to send_to_chat.
C29_EditFanout ==
    \A m \in Msgs :
        (message_exists(service_messages, m) /\ service_messages[m].edited)
            ~> (\E e \in 1..Len(events) :
                    events[e].type = "message_edited" /\ events[e].message = m)

\* C38 (the claim as stated): the status row of a message for its own sender is
\* sent in every state, whatever mark_as_delivered and mark_as_read calls are made.
C38_SenderRowStaysSent ==
    \A m \in 1..Len(service_messages) :
        \A r \in status_rows(message_status, m, service_messages[m].sender_id) :
            r.status = "sent"

\* C39: in every state no user key of active_connections has an empty list, and a
\* registered websocket is in the registry once, under the user of its token and
\* under no other key; and a disconnect call for a registered websocket removes that
\* entry alone: the other websockets of its user keep their order, the key goes only
\* when its list is left empty, and every other user's list is as it was.
C39_RegistryWellFormed ==
    /\ [](\A u \in DOMAIN active_connections :
            /\ active_connections[u] # << >>
            /\ \A i, j \in 1..Len(active_connections[u]) :
                  i # j => active_connections[u][i] # active_connections[u][j]
            /\ \A w \in Range(active_connections[u]) :
                  /\ user_id[w] = u
                  /\ token[w].valid /\ token[w].sub = u
                  /\ \A v \in DOMAIN active_connections :
                        w \in Range(active_connections[v]) => v = u)
    /\ [][\A w \in Conns :
            (nDisc'[w] # nDisc[w] /\ w \in Registered) =>
                LET u == user_id[w]
                    isOther(x) == x # w
                    rest == SelectSeq(active_connections[u], isOther)
                IN  /\ \A v \in DOMAIN active_connections \ {u} :
                          /\ v \in DOMAIN active_connections'
                          /\ active_connections'[v] = active_connections[v]
                    /\ DOMAIN active_connections' \subseteq DOMAIN active_connections
                    /\ IF rest = << >>
                       THEN u \notin DOMAIN active_connections'
                       ELSE /\ u \in DOMAIN active_connections'
                            /\ active_connections'[u] = rest
         ]_vars

\* a user had two websockets registered; the first was disconnected, once, and the
\* second is the user's list
C39_Witness ==
    \E w, v \in Conns :
        /\ w # v /\ user_id[w] = user_id[v]
        /\ pc[w] = "closed" /\ wasReg[w] /\ nDisc[w] = 1 /\ ~crashed[w]
        /\ w < v
        /\ user_id[v] \in DOMAIN active_connections
        /\ active_connections[user_id[v]] = <<v>>

\* C34 (the claim as stated): in the step in which an event is sent to a websocket,
\* the user of that websocket is a participant of the event's chat.
C34_DeliveryToCurrentParticipants ==
    [][ \A w \in Conns :
          (Len(inbox'[w]) > Len(inbox[w]) /\ inbox'[w][Len(inbox'[w])] # ErrorEvent) =>
              user_id[w] \in Range(chat_participants[
                                      events[inbox'[w][Len(inbox'[w])]].chatId])
      ]_vars

\* C40 (the claim as stated): the message events of one chat that a websocket has
\* been sent are in its frames in the order of their message ids.
C40_MessageOrderPerConnection ==
    \A w \in Conns : \A i, j \in 1..Len(inbox[w]) :
        (/\ i < j
         /\ inbox[w][i] # ErrorEvent /\ inbox[w][j] # ErrorEvent
         /\ events[inbox[w][i]].type = "message" /\ events[inbox[w][j]].type = "message"
         /\ events[inbox[w][i]].chatId = events[inbox[w][j]].chatId)
            => events[inbox[w][i]].message < events[inbox[w][j]].message

\* C37: under fair scheduling a registered websocket whose transport has closed is
\* in the end in no list of active_connections, and its session has ended, whether
\* it was waiting at receive_json, in send_to_chat or at the send of an error reply
\* when the transport closed.
C37_ClosedConnectionUnregistered ==
    \A w \in Conns :
        (w \in Registered /\ ~alive[w]) ~> (w \notin Registered /\ pc[w] = "closed")

\* the session of a websocket that had sent a message to the chat has ended: the
\* websocket was registered, was disconnected once and is in no list, while another
\* websocket that was sent its event is still registered
C37_Witness ==
    \E w, v \in Conns, e \in 1..Len(events) :
        /\ w # v
        /\ pc[w] = "closed" /\ wasReg[w] /\ nDisc[w] = 1 /\ ~alive[w]
        /\ w \notin Registered
        /\ events[e].task = w
        /\ e \in Range(inbox[v]) /\ v \in Registered

\* C33 (the claim as stated): the chat that create_or_get_direct_chat returns for
\* the caller A and the contact B has exactly two participant rows, of the two
\* distinct users A and B.
C33_DirectChatHasExactlyThePair ==
    [][ (calls' # calls /\ last'.op = "create_or_get_direct_chat"
            /\ last'.result = "chat") =>
          /\ last'.u # last'.x
          /\ Len(chat_participants'[last'.m]) = 2
          /\ Range(chat_participants'[last'.m]) = {last'.u, last'.x}
      ]_vars

\* C36 (the claim as stated): no chat has two participant rows of the same user, and
\* no websocket has been sent the same event twice.
C36_ParticipantRowsUnique ==
    /\ \A c \in DOMAIN chat_participants :
          \A i, j \in 1..Len(chat_participants[c]) :
              i # j => chat_participants[c][i] # chat_participants[c][j]
    /\ \A w \in Conns : \A i, j \in 1..Len(inbox[w]) :
          (i # j /\ inbox[w][i] # ErrorEvent) => inbox[w][i] # inbox[w][j]

\* C31 (the claim as stated): with mark_as_delivered and mark_as_read calls for the
\* same (message, user) in progress at the same time, no step takes the status of a
\* row from read to another status, and when a mark_as_read call that was not
\* refused has completed, the status of its row is read.
C31_ForwardOnlyUnderInterleaving ==
    [][ /\ \A r \in message_status :
              r.status = "read" =>
                  \A q \in status_rows(message_status', r.message_id, r.user_id) :
                      q.status = "read"
        /\ \A t \in Txns :
              (txn[t].op = "mark_as_read" /\ txn'[t] = NoTxn) =>
                  /\ status_rows(message_status', txn[t].m, txn[t].u) # {}
                  /\ \A q \in status_rows(message_status', txn[t].m, txn[t].u) :
                        q.status = "read"
      ]_vars

\* C35: with update_message calls of the sender for the same message in progress at
\* the same time, in every state a message with n committed edits is at version
\* n + 1 with the content of the last of them and its MessageVersion rows are the
\* versions 1..n, the row of version k holding the content before the k-th edit; and
\* a call that completes has either written its content, its snapshot and the next
\* version, or has raised and written nothing.
C35_InterleavedEditsKeepHistory ==
    /\ [](\A m \in 1..Len(service_messages) :
            LET n == Len(contents[m]) - 1
            IN  /\ service_messages[m].version = n + 1
                /\ service_messages[m].content = contents[m][n + 1]
                /\ {r \in message_versions : r.message_id = m}
                      = {[message_id |-> m, version |-> k, content |-> contents[m][k]] :
                            k \in 1..n})
    /\ [][\A t \in Txns :
            (txn[t].op = "update_message" /\ txn'[t] = NoTxn) =>
                LET m == txn[t].m
                IN  \/ /\ last'.result = "message"
                       /\ service_messages'[m].content = txn[t].x
                       /\ service_messages'[m].version = service_messages[m].version + 1
                       /\ message_versions' \ message_versions
                             = {[message_id |-> m, version |-> service_messages[m].version,
                                 content |-> service_messages[m].content]}
                    \/ /\ last'.result = "raised"
                       /\ service_messages' = service_messages
                       /\ message_versions' = message_versions
                       /\ contents' = contents
         ]_vars

\* two edits of a message were in progress at once: one was committed and took the
\* message to version 2, and the other, which had read version 1 too, raised at its
\* commit
C35_Witness ==
    /\ last.op = "update_message" /\ last.result = "raised"
    /\ service_messages[last.m].version = InitialVersion + 1
    /\ service_messages[last.m].content # last.x
    /\ Cardinality({r \in message_versions : r.message_id = last.m}) = 1
    /\ \A t \in Txns : txn[t] = NoTxn

\* C32 (the claim as stated): with create_or_get_direct_chat requests in progress at
\* the same time, in every state at most one chat has exactly the two participant
\* rows of a pair of distinct users.
C32_OneDirectChatPerPair ==
    \A a, b \in Users :
        a # b =>
            Cardinality({c \in DOMAIN chat_participants :
                            /\ Len(chat_participants[c]) = 2
                            /\ Range(chat_participants[c]) = {a, b}}) <= 1

====
